---- MODULE Spec2Model ----
(***************************************************************************)
(* Model of the calendar toolkit of AgenDo                                 *)
(* (src/agent/tools/sdk/googlecalendar.py, GoogleCalendarTools).           *)
(*                                                                         *)
(* Time is counted in whole minutes.  An instant is the number of minutes  *)
(* since 00:00 UTC of calendar date 0; a calendar date is an index         *)
(* 0, 1, 2, ... and its weekday is (weekday0 + date) % 7 with Monday = 0,  *)
(* as datetime.date.weekday() counts.  A time zone is a fixed offset in    *)
(* minutes east of UTC, so a local wall-clock reading is instant + offset. *)
(***************************************************************************)
EXTENDS Integers, Sequences, FiniteSets, TLC

VARIABLES
    service,        \* self.service: "None" or "svc" (the cached API client)
    now,            \* the instant datetime.datetime.now() reads
    weekday0,       \* weekday of calendar date 0
    calendar_tz,    \* 'timeZone' of the primary calendar as the API reports it
    calendars,      \* calendar id -> [status, items]: what the API holds
    args,           \* the arguments of the last find_free_time call
    pc,             \* "ready" before the call, "done" after it returned
    free_slots,     \* the local list free_slots before the cap of line 1231
    ret,            \* the decoded JSON value the call returned
    history,        \* per finished call: the login outcome and the value returned
    token_file,     \* os.path.exists(self.auth.token_path)
    creds,          \* self.auth.creds: "None" or "valid"
    event_status,   \* event id -> how events().get and events().move answer
    calls           \* per finished tool call: what it found, did and returned

vars == <<service, now, weekday0, calendar_tz, calendars, args, pc,
          free_slots, ret, history, token_file, creds, event_status, calls>>

(***************************************************************************)
(* Bounds of the explored inputs.                                          *)
(***************************************************************************)
MaxBusy == 2            \* most events one calendar returns
MaxSearchDays == 10     \* largest search_days argument
MaxCalls == 2           \* most calls one toolkit object receives

(***************************************************************************)
(* Program constants.                                                      *)
(***************************************************************************)
MaxResults == 10        \* free_slots[:10]
FirstWeekendDay == 5    \* current_date.weekday() >= 5
MinutesPerHour == 60
MinutesPerDay == 1440

Min(a, b) == IF a < b THEN a ELSE b
Max(a, b) == IF a > b THEN a ELSE b

(***************************************************************************)
(* Time zones.  pytz.timezone(name) raises for a name it does not know and *)
(* find_free_time then uses pytz.UTC.                                      *)
(***************************************************************************)
KnownZones == {"UTC", "Etc/GMT-2"}

ZoneOffset(name) ==
    CASE name = "UTC" -> 0
      [] name = "Etc/GMT-2" -> 2 * MinutesPerHour

\* user_tz falling back to a zone other than UTC for an unknown name
user_tz_other_fallback(user_timezone_str) ==
    IF user_timezone_str \in KnownZones THEN ZoneOffset(user_timezone_str)
    ELSE 2 * MinutesPerHour

user_tz(user_timezone_str) ==
    IF user_timezone_str \in KnownZones THEN ZoneOffset(user_timezone_str) ELSE 0

\* _get_user_timezone: the reported zone, or 'UTC' when the lookup raised
\* ("error") or carried no timeZone ("").
_get_user_timezone(reply) ==
    IF reply = "error" \/ reply = "" THEN "UTC" ELSE reply

\* the local calendar date of an instant: dt.astimezone(tz).date()
DateOf(t, tz) == (t + tz) \div MinutesPerDay

\* tz.localize(datetime.combine(date, time(hour=h, minute=0))) as an instant
Localize(date, h, tz) == date * MinutesPerDay + h * MinutesPerHour - tz

\* dt.replace(tzinfo=None): the local wall-clock reading of an aware datetime
Naive(t, tz) == t + tz

\* date.weekday() of calendar date `date` when date 0 has weekday wd
weekday(date, wd) == (wd + date) % 7

(***************************************************************************)
(* Events as the API returns them.  A timed event carries                  *)
(* start.dateTime / end.dateTime, RFC 3339 strings written with the UTC    *)
(* offset `off` of the calendar the event lives in: `wall` is the          *)
(* wall-clock reading inside the string (minutes since 00:00 of date 0)    *)
(* and `len` the length of the event.  An all-day event carries only       *)
(* start.date (hasDateTime = FALSE).  `parses` tells whether                *)
(* datetime.fromisoformat accepts the two strings: "ok", "bad_start" (it   *)
(* raises ValueError on start.dateTime) or "bad_end" (on end.dateTime).    *)
(***************************************************************************)
Timed(wall, off, len) ==
    [hasDateTime |-> TRUE, wall |-> wall, off |-> off, len |-> len,
     parses |-> "ok"]

AllDay(date) ==
    [hasDateTime |-> FALSE, wall |-> date * MinutesPerDay, off |-> 0,
     len |-> MinutesPerDay, parses |-> "ok"]

\* a timed event one of whose strings is malformed
Malformed(wall, off, len, which) ==
    [hasDateTime |-> TRUE, wall |-> wall, off |-> off, len |-> len,
     parses |-> which]

\* datetime.fromisoformat(s.replace('Z', '+00:00')) of start / end, as instants
EventStart(event) == event.wall - event.off
EventEnd(event) == event.wall - event.off + event.len

\* The sort key of line 1184 is the string x['start']['dateTime'] itself:
\* strings compare by the wall-clock digits first and by the offset suffix
\* last (offsets here are "+00:00" and "+01:00", ordered as their numbers).
KeyLess(a, b) == a.wall < b.wall \/ (a.wall = b.wall /\ a.off < b.off)

RECURSIVE InsertSorted(_, _)
InsertSorted(event, sorted) ==
    IF sorted = <<>> THEN <<event>>
    ELSE IF KeyLess(event, Head(sorted))
         THEN <<event>> \o sorted
         ELSE <<Head(sorted)>> \o InsertSorted(event, Tail(sorted))

\* list.sort(key=...) is stable: InsertSorted puts an equal key behind the
\* ones already placed, so the list is fed from the front.
RECURSIVE SortByKey(_, _)
SortByKey(events, acc) ==
    IF events = <<>> THEN acc
    ELSE SortByKey(Tail(events), InsertSorted(Head(events), acc))

day_events_sorted(day_events) == SortByKey(day_events, <<>>)

(***************************************************************************)
(* The scan of find_free_time, lines 1150-1231.                            *)
(***************************************************************************)
\* the dict appended to free_slots (lines 1204-1210 and 1220-1226); the
\* 'time' string repeats start and end and is left out
FreeSlot(current_time, slot_end, tz) ==
    [start_time |-> Naive(current_time, tz),
     end_time |-> Naive(slot_end, tz),
     duration_minutes |-> slot_end - current_time,
     date |-> DateOf(current_time, tz)]

RECURSIVE day_events_with_all_day(_, _, _)
\* day_events without the test 'dateTime' in event_start: all-day entries
\* are taken as busy from 00:00 to 24:00 of their date
day_events_with_all_day(all_events, current_date, tz) ==
    IF all_events = <<>> THEN <<>>
    ELSE LET event == Head(all_events)
             rest == day_events_with_all_day(Tail(all_events), current_date, tz)
         IN IF DateOf(EventStart(event), tz) = current_date
            THEN <<event>> \o rest
            ELSE rest

\* day_events taking every timed event that overlaps current_date, not only
\* the ones that start on it
RECURSIVE day_events_by_overlap(_, _, _)
day_events_by_overlap(all_events, current_date, tz) ==
    IF all_events = <<>> THEN <<>>
    ELSE LET event == Head(all_events)
             rest == day_events_by_overlap(Tail(all_events), current_date, tz)
         IN IF /\ event.hasDateTime
               /\ DateOf(EventStart(event), tz) <= current_date
               /\ DateOf(EventEnd(event), tz) >= current_date
            THEN <<event>> \o rest
            ELSE rest

\* lines 1173-1182: the timed events whose local start date is current_date
RECURSIVE day_events(_, _, _)
day_events(all_events, current_date, tz) ==
    IF all_events = <<>> THEN <<>>
    ELSE LET event == Head(all_events)
             rest == day_events(Tail(all_events), current_date, tz)
         IN IF event.hasDateTime /\ DateOf(EventStart(event), tz) = current_date
            THEN <<event>> \o rest
            ELSE rest

\* GapSlot without the test gap_duration >= duration_minutes
GapSlotNoFit(current_time, gap_end, duration_minutes, tz) ==
    IF gap_end > current_time
    THEN <<FreeSlot(current_time,
                    Min(gap_end, current_time + duration_minutes), tz)>>
    ELSE <<>>

\* GapSlot reporting the whole gap instead of the first duration_minutes
GapSlotWhole(current_time, gap_end, duration_minutes, tz) ==
    IF gap_end > current_time /\ gap_end - current_time >= duration_minutes
    THEN <<FreeSlot(current_time, gap_end, tz)>>
    ELSE <<>>

\* GapSlot with the strict test gap_duration > duration_minutes
GapSlotStrict(current_time, gap_end, duration_minutes, tz) ==
    IF gap_end > current_time /\ gap_end - current_time > duration_minutes
    THEN <<FreeSlot(current_time,
                    Min(gap_end, current_time + duration_minutes), tz)>>
    ELSE <<>>

\* lines 1199-1210 and 1215-1226: the slot of the gap [current_time, gap_end)
GapSlot(current_time, gap_end, duration_minutes, tz) ==
    IF gap_end > current_time /\ gap_end - current_time >= duration_minutes
    THEN <<FreeSlot(current_time,
                    Min(gap_end, current_time + duration_minutes), tz)>>
    ELSE <<>>

\* WalkEvents with a cursor that stays where it is after an event
RECURSIVE WalkEventsNoAdvance(_, _, _, _)
WalkEventsNoAdvance(events, current_time, duration_minutes, tz) ==
    IF events = <<>> THEN [slots |-> <<>>, current_time |-> current_time]
    ELSE LET event == Head(events)
             rest == WalkEventsNoAdvance(Tail(events), current_time,
                                         duration_minutes, tz)
         IN [slots |-> GapSlot(current_time, EventStart(event),
                               duration_minutes, tz) \o rest.slots,
             current_time |-> rest.current_time]

\* WalkEvents moving the cursor only past an event that had a slot in front
\* of it
RECURSIVE WalkEventsAdvanceOnSlot(_, _, _, _)
WalkEventsAdvanceOnSlot(events, current_time, duration_minutes, tz) ==
    IF events = <<>> THEN [slots |-> <<>>, current_time |-> current_time]
    ELSE LET event == Head(events)
             slot == GapSlot(current_time, EventStart(event),
                             duration_minutes, tz)
             rest == WalkEventsAdvanceOnSlot(Tail(events),
                        IF slot # <<>> THEN Max(current_time, EventEnd(event))
                        ELSE current_time,
                        duration_minutes, tz)
         IN [slots |-> slot \o rest.slots,
             current_time |-> rest.current_time]

\* WalkEvents with current_time = event_end at line 1212: the cursor
\* follows the last event walked
RECURSIVE WalkEventsNoMax(_, _, _, _)
WalkEventsNoMax(events, current_time, duration_minutes, tz) ==
    IF events = <<>> THEN [slots |-> <<>>, current_time |-> current_time]
    ELSE LET event == Head(events)
             rest == WalkEventsNoMax(Tail(events), EventEnd(event),
                                     duration_minutes, tz)
         IN [slots |-> GapSlot(current_time, EventStart(event),
                               duration_minutes, tz) \o rest.slots,
             current_time |-> rest.current_time]

\* lines 1189-1212: the loop over the sorted events of the day; the result
\* is the slots found and the cursor the loop ends with
RECURSIVE WalkEvents(_, _, _, _)
WalkEvents(events, current_time, duration_minutes, tz) ==
    IF events = <<>> THEN [slots |-> <<>>, current_time |-> current_time]
    ELSE LET event == Head(events)
             rest == WalkEvents(Tail(events),
                                Max(current_time, EventEnd(event)),
                                duration_minutes, tz)
         IN [slots |-> GapSlot(current_time, EventStart(event),
                               duration_minutes, tz) \o rest.slots,
             current_time |-> rest.current_time]

\* ScanDay without the clamp of lines 1169-1170
ScanDayNoClamp(all_events, current_date, start_date, a, tz) ==
    LET day_start == Localize(current_date, a.work_hours_start, tz)
        day_end == Localize(current_date, a.work_hours_end, tz)
        walk == WalkEvents(day_events_sorted(day_events(all_events, current_date, tz)),
                           day_start, a.duration_minutes, tz)
    IN walk.slots \o GapSlot(walk.current_time, day_end, a.duration_minutes, tz)

\* ScanDay without lines 1215-1226: the gap after the last event is not
\* looked at
ScanDayNoTrailing(all_events, current_date, start_date, a, tz) ==
    LET day_start0 == Localize(current_date, a.work_hours_start, tz)
        day_start == IF day_start0 < start_date THEN start_date ELSE day_start0
        walk == WalkEvents(day_events_sorted(day_events(all_events, current_date, tz)),
                           day_start, a.duration_minutes, tz)
    IN walk.slots

\* lines 1159-1226: the slots of one scanned day
ScanDay(all_events, current_date, start_date, a, tz) ==
    LET day_start0 == Localize(current_date, a.work_hours_start, tz)
        day_end == Localize(current_date, a.work_hours_end, tz)
        day_start == IF day_start0 < start_date THEN start_date ELSE day_start0
        walk == WalkEvents(day_events_sorted(day_events(all_events, current_date, tz)),
                           day_start, a.duration_minutes, tz)
    IN walk.slots \o GapSlot(walk.current_time, day_end, a.duration_minutes, tz)

\* SkipDay with weekday() > 5: only Sundays are skipped
SkipDaySundayOnly(current_date, a, wd) ==
    a.exclude_weekends /\ weekday(current_date, wd) > FirstWeekendDay

\* lines 1154-1157: the weekend test
SkipDay(current_date, a, wd) ==
    a.exclude_weekends /\ weekday(current_date, wd) >= FirstWeekendDay

\* lines 1152-1228: the loop over the days, current_date .. end_date.date()
RECURSIVE ScanDays(_, _, _, _, _, _, _)
ScanDays(all_events, current_date, last_date, start_date, a, tz, wd) ==
    IF current_date > last_date THEN <<>>
    ELSE (IF SkipDay(current_date, a, wd) THEN <<>>
          ELSE ScanDay(all_events, current_date, start_date, a, tz))
         \o ScanDays(all_events, current_date + 1, last_date, start_date, a, tz,
                     wd)

\* Cap without the slice
CapNone(slots) == slots

\* Cap keeping the last 10 entries, free_slots[-10:]
CapLast(slots) ==
    SubSeq(slots, Max(1, Len(slots) - MaxResults + 1), Len(slots))

\* line 1231: free_slots[:10]
Cap(slots) == SubSeq(slots, 1, Min(Len(slots), MaxResults))

\* lines 1117-1119 and 1150-1228 for the events all_events
\* Scan with the loop test current_date < end_date.date(): the last day is
\* left out
ScanExclusiveEnd(all_events, start_date, a, tz, wd) ==
    ScanDays(all_events, DateOf(start_date, tz),
             DateOf(start_date + a.search_days * MinutesPerDay, tz) - 1,
             start_date, a, tz, wd)

Scan(all_events, start_date, a, tz, wd) ==
    ScanDays(all_events, DateOf(start_date, tz),
             DateOf(start_date + a.search_days * MinutesPerDay, tz),
             start_date, a, tz, wd)

\* the ValueError of datetime.fromisoformat: line 1177 parses the start of
\* every timed event on every scanned day, line 1194 the end of the events
\* of the scanned day; the exception leaves the scan
ScanRaises(all_events, start_date, a, tz, wd) ==
    \E current_date \in DateOf(start_date, tz)..
                        DateOf(start_date + a.search_days * MinutesPerDay, tz) :
        /\ ~SkipDay(current_date, a, wd)
        /\ \E i \in 1..Len(all_events) :
              /\ all_events[i].hasDateTime
              /\ \/ all_events[i].parses = "bad_start"
                 \/ /\ all_events[i].parses = "bad_end"
                    /\ DateOf(EventStart(all_events[i]), tz) = current_date

(***************************************************************************)
(* The calendar API as find_free_time uses it.                             *)
(***************************************************************************)
CalendarIds == {"primary", "work"}
EventIds == {"e1", "e2", "e3"}

\* status of a calendar: "ok"; "denied" (calendars().get answers 403 or
\* 404); "http_error" (any other HttpError); "crash" (an exception that is
\* no HttpError)
Statuses == {"ok", "denied", "http_error", "crash"}

\* events().list(timeMin, timeMax, singleEvents, orderBy="startTime"): the
\* stored events that end after timeMin and start before timeMax, in the
\* stored (start time) order
RECURSIVE EventsList(_, _, _)
EventsList(items, timeMin, timeMax) ==
    IF items = <<>> THEN <<>>
    ELSE LET event == Head(items)
             rest == EventsList(Tail(items), timeMin, timeMax)
         IN IF EventEnd(event) > timeMin /\ EventStart(event) < timeMax
            THEN <<event>> \o rest
            ELSE rest

\* _validate_calendar_access, lines 132-143: True, False, or the exception
\* it lets through
_validate_calendar_access(cals, cal_id) ==
    IF cal_id \notin DOMAIN cals THEN "False"
    ELSE CASE cals[cal_id].status = "ok" -> "True"
           [] cals[cal_id].status = "denied" -> "False"
           [] cals[cal_id].status = "http_error" -> "HttpError"
           [] cals[cal_id].status = "crash" -> "Exception"

\* lines 1099-1104
calendars_to_check(a) ==
    IF a.calendar_ids # <<>> THEN a.calendar_ids ELSE <<a.calendar_id>>

\* all_events giving up at the first calendar that is skipped
RECURSIVE all_events_until_skip(_, _, _, _)
all_events_until_skip(cals, to_check, timeMin, timeMax) ==
    IF to_check = <<>> THEN <<>>
    ELSE LET cal_id == Head(to_check)
             rest == all_events_until_skip(cals, Tail(to_check), timeMin,
                                           timeMax)
         IN IF _validate_calendar_access(cals, cal_id) = "True"
            THEN EventsList(cals[cal_id].items, timeMin, timeMax) \o rest
            ELSE <<>>

\* lines 1122-1146: all_events; a calendar without access and a calendar
\* that answers with an HttpError are skipped
RECURSIVE all_events(_, _, _, _)
all_events(cals, to_check, timeMin, timeMax) ==
    IF to_check = <<>> THEN <<>>
    ELSE LET cal_id == Head(to_check)
             rest == all_events(cals, Tail(to_check), timeMin, timeMax)
         IN IF _validate_calendar_access(cals, cal_id) = "True"
            THEN EventsList(cals[cal_id].items, timeMin, timeMax) \o rest
            ELSE rest

\* an exception that is no HttpError leaves the loop of lines 1123-1146 and
\* reaches the handler of line 1251
Raises(cals, to_check) ==
    \E i \in 1..Len(to_check) :
        _validate_calendar_access(cals, to_check[i]) = "Exception"

(***************************************************************************)
(* Authentication.  GoogleAuth.login (googleauth.py, lines 55-80) either   *)
(* returns a service, leaving valid credentials and a saved token behind,  *)
(* or raises; a login that raises is taken to raise before any credentials *)
(* were obtained.                                                          *)
(***************************************************************************)
login(login_ok, cr, tf) ==
    IF login_ok
    THEN [service |-> "svc", creds |-> "valid", token_file |-> TRUE,
          raised |-> FALSE]
    ELSE [service |-> "None", creds |-> cr, token_file |-> tf,
          raised |-> TRUE]

\* _ensure_authenticated that logs in at every call, cached service or not
_ensure_authenticated_every_call(svc, login_ok, cr, tf) ==
    [login_invoked |-> TRUE] @@ login(login_ok, cr, tf)

\* _ensure_authenticated, lines 97-107: log in only if there is no service
_ensure_authenticated(svc, login_ok, cr, tf) ==
    IF svc = "None"
    THEN [login_invoked |-> TRUE] @@ login(login_ok, cr, tf)
    ELSE [login_invoked |-> FALSE, service |-> svc, creds |-> cr,
          token_file |-> tf, raised |-> FALSE]

\* GoogleAuth.is_authenticated, googleauth.py line 164
is_authenticated(cr) == cr # "None" /\ cr = "valid"

\* one API request
Req(op, id) == [op |-> op, id |-> id]

\* the requests of lines 1125-1139 for the listed calendars, up to the
\* first exception that is no HttpError
RECURSIVE CollectRequests(_, _)
CollectRequests(cals, to_check) ==
    IF to_check = <<>> THEN <<>>
    ELSE LET cal_id == Head(to_check)
             access == _validate_calendar_access(cals, cal_id)
         IN <<Req("calendars.get", cal_id)>>
            \o (IF access = "True" THEN <<Req("events.list", cal_id)>> ELSE <<>>)
            \o (IF access = "Exception" THEN <<>>
                ELSE CollectRequests(cals, Tail(to_check)))

\* the requests of one find_free_time call that got past authentication:
\* the zone lookup of line 1109, then the calendars
find_free_time_requests(cals, to_check) ==
    <<Req("calendars.get", "primary")>> \o CollectRequests(cals, to_check)

\* the record of one finished tool call
Call(tool, input, svc, auth, requests, out) ==
    [tool |-> tool, input |-> input, service_before |-> svc,
     login_invoked |-> auth.login_invoked, login_raised |-> auth.raised,
     requests |-> requests, out |-> out]

(***************************************************************************)
(* find_free_time, lines 1062-1253, as one step.  login_ok is the outcome  *)
(* of GoogleAuth.login() if _ensure_authenticated has to call it.          *)
(***************************************************************************)
ErrorJson(a) ==
    [error |-> TRUE, free_slots |-> <<>>, calendars_checked |-> <<>>]

SlotsJson(slots, a) ==
    [error |-> FALSE, free_slots |-> slots,
     calendars_checked |-> calendars_to_check(a)]

\* find_free_time with a free_slots list that is not emptied at line 1151
\* (the list kept on the object between calls)
find_free_time_keeps_list(a, login_ok, t, wd, tzreply, cals) ==
    /\ args' = a
    /\ now' = t
    /\ weekday0' = wd
    /\ calendar_tz' = tzreply
    /\ calendars' = cals
    /\ pc' = "done"
    /\ IF service = "None" /\ ~login_ok
       THEN /\ service' = "None"
            /\ free_slots' = free_slots
            /\ ret' = ErrorJson(a)
       ELSE /\ service' = "svc"
            /\ LET tz == user_tz(_get_user_timezone(tzreply))
                   start_date == t
                   end_date == start_date + a.search_days * MinutesPerDay
                   events == all_events(cals, calendars_to_check(a),
                                        start_date, end_date)
               IN IF \/ Raises(cals, calendars_to_check(a))
                     \/ ScanRaises(events, start_date, a, tz, wd)
                  THEN /\ free_slots' = free_slots
                       /\ ret' = ErrorJson(a)
                  ELSE /\ free_slots' =
                            free_slots \o Scan(events, start_date, a, tz, wd)
                       /\ ret' = SlotsJson(Cap(free_slots'), a)
    /\ history' = Append(history, [login_ok |-> login_ok, ret |-> ret'])
    /\ LET auth == _ensure_authenticated(service, login_ok, creds, token_file)
       IN /\ creds' = auth.creds
          /\ token_file' = auth.token_file
          /\ calls' = Append(calls,
                Call("find_free_time", a, service, auth,
                     IF auth.raised THEN <<>>
                     ELSE find_free_time_requests(cals, calendars_to_check(a)),
                     ret'))
    /\ UNCHANGED event_status

find_free_time(a, login_ok, t, wd, tzreply, cals) ==
    /\ args' = a
    /\ now' = t
    /\ weekday0' = wd
    /\ calendar_tz' = tzreply
    /\ calendars' = cals
    /\ pc' = "done"
    /\ IF service = "None" /\ ~login_ok
       THEN /\ service' = "None"
            /\ free_slots' = <<>>
            /\ ret' = ErrorJson(a)
       ELSE /\ service' = "svc"
            /\ LET tz == user_tz(_get_user_timezone(tzreply))
                   start_date == t
                   end_date == start_date + a.search_days * MinutesPerDay
                   events == all_events(cals, calendars_to_check(a),
                                        start_date, end_date)
               IN IF \/ Raises(cals, calendars_to_check(a))
                     \/ ScanRaises(events, start_date, a, tz, wd)
                  THEN /\ free_slots' = <<>>
                       /\ ret' = ErrorJson(a)
                  ELSE /\ free_slots' = Scan(events, start_date, a, tz, wd)
                       /\ ret' = SlotsJson(Cap(free_slots'), a)
    /\ history' = Append(history, [login_ok |-> login_ok, ret |-> ret'])
    /\ LET auth == _ensure_authenticated(service, login_ok, creds, token_file)
       IN /\ creds' = auth.creds
          /\ token_file' = auth.token_file
          /\ calls' = Append(calls,
                Call("find_free_time", a, service, auth,
                     IF auth.raised THEN <<>>
                     ELSE find_free_time_requests(cals, calendars_to_check(a)),
                     ret'))
    /\ UNCHANGED event_status

(***************************************************************************)
(* The explored inputs.                                                    *)
(***************************************************************************)
At(date, h, m) == date * MinutesPerDay + h * MinutesPerHour + m

\* the events a calendar may hold, in start-time order
Catalogue ==
    << AllDay(0),
       Timed(At(0, 9, 0), 0, 8 * MinutesPerHour),       \* 09:00-17:00
       Timed(At(0, 9, 0), 0, 4 * MinutesPerHour),       \* 09:00-13:00
       Timed(At(0, 10, 30), MinutesPerHour, 30),        \* 10:30+01:00, 30 min
       Timed(At(0, 10, 0), 0, MinutesPerHour),          \* 10:00-11:00
       Timed(At(0, 13, 0), 0, 4 * MinutesPerHour),      \* 13:00-17:00
       Timed(At(0, 18, 0), 0, MinutesPerHour),          \* 18:00-19:00
       Timed(At(0, 23, 0), 0, 18 * MinutesPerHour),     \* 23:00-17:00 (+1)
       Timed(At(1, 10, 0), 0, MinutesPerHour) >>        \* 10:00-11:00 (+1)

RECURSIVE Pick(_, _)
Pick(indices, i) ==
    IF i > Len(Catalogue) THEN <<>>
    ELSE (IF i \in indices THEN <<Catalogue[i]>> ELSE <<>>)
         \o Pick(indices, i + 1)

BusyLists ==
    { Pick(indices, 1) : indices \in
        { S \in SUBSET (1..Len(Catalogue)) : Cardinality(S) <= MaxBusy } }

Durations == {0, 30, 60, 8 * MinutesPerHour}
SearchDays == {0, 1, MaxSearchDays}
WorkHours == {<<9, 17>>, <<17, 9>>}
Weekdays == {3, 4}
Nows == {At(0, 8, 0), At(0, 16, 30), At(0, 17, 30)}
ZoneReplies == {"UTC", "Etc/GMT-2"}

ScanArgs ==
    { [duration_minutes |-> d, search_days |-> n,
       work_hours_start |-> wh[1], work_hours_end |-> wh[2],
       exclude_weekends |-> x, calendar_id |-> "primary",
       calendar_ids |-> <<>>] :
      d \in Durations, n \in SearchDays, wh \in WorkHours, x \in BOOLEAN }

\* one calendar, "primary", holding the events busy
OneCalendar(busy) ==
    [c \in CalendarIds |->
        IF c = "primary" THEN [status |-> "ok", items |-> busy]
        ELSE [status |-> "denied", items |-> <<>>]]

(***************************************************************************)
(* Specification: a freshly constructed toolkit receives one               *)
(* find_free_time call.                                                    *)
(***************************************************************************)
Init ==
    /\ service = "None"
    /\ now = 0
    /\ weekday0 = 0
    /\ calendar_tz = "UTC"
    /\ calendars = OneCalendar(<<>>)
    /\ args = [duration_minutes |-> 0, search_days |-> 7,
               work_hours_start |-> 9, work_hours_end |-> 17,
               exclude_weekends |-> TRUE, calendar_id |-> "primary",
               calendar_ids |-> <<>>]
    /\ pc = "ready"
    /\ free_slots = <<>>
    /\ ret = [error |-> FALSE, free_slots |-> <<>>, calendars_checked |-> <<>>]
    /\ history = <<>>
    /\ token_file = FALSE
    /\ creds = "None"
    /\ event_status = [e \in EventIds |-> "ok"]
    /\ calls = <<>>

FindFreeTime ==
    /\ pc = "ready"
    /\ \E a \in ScanArgs, login_ok \in BOOLEAN, t \in Nows, wd \in Weekdays,
          tzreply \in ZoneReplies, busy \in BusyLists :
          find_free_time(a, login_ok, t, wd, tzreply, OneCalendar(busy))

Next == FindFreeTime

Spec == Init /\ [][Next]_vars

(***************************************************************************)
(* Specification: the same toolkit object receives the same call again,    *)
(* with the same arguments, at the same instant and against the same       *)
(* calendars; only the outcome of a login may differ.                      *)
(***************************************************************************)
RepeatFindFreeTime ==
    /\ pc = "done"
    /\ Len(history) < MaxCalls
    /\ \E login_ok \in BOOLEAN :
          find_free_time(args, login_ok, now, weekday0, calendar_tz, calendars)

NextRepeat == FindFreeTime \/ RepeatFindFreeTime

SpecRepeat == Init /\ [][NextRepeat]_vars

(***************************************************************************)
(* Specification: one find_free_time call on edge-case inputs: a zone      *)
(* lookup that fails or reports an unknown zone, events with malformed     *)
(* strings, a call one minute into the working hours.                      *)
(***************************************************************************)
EdgeCatalogue ==
    << AllDay(0),
       Timed(At(0, 10, 0), 0, MinutesPerHour),                  \* 10:00-11:00
       Malformed(At(0, 12, 0), 0, MinutesPerHour, "bad_start"), \* 12:00-13:00
       Malformed(At(0, 14, 0), 0, MinutesPerHour, "bad_end"),   \* 14:00-15:00
       Timed(At(0, 18, 0), 0, MinutesPerHour),                  \* 18:00-19:00
       Malformed(At(1, 8, 0), 0, MinutesPerHour, "bad_end") >>  \* 08:00-09:00 (+1)

RECURSIVE PickFrom(_, _, _)
PickFrom(catalogue, indices, i) ==
    IF i > Len(catalogue) THEN <<>>
    ELSE (IF i \in indices THEN <<catalogue[i]>> ELSE <<>>)
         \o PickFrom(catalogue, indices, i + 1)

EdgeLists ==
    { PickFrom(EdgeCatalogue, indices, 1) : indices \in
        { S \in SUBSET (1..Len(EdgeCatalogue)) : Cardinality(S) <= MaxBusy } }

EdgeDurations == {30, 60, 8 * MinutesPerHour}
EdgeNows == {At(0, 8, 0), At(0, 9, 0), At(0, 9, 1)}
EdgeZoneReplies == {"UTC", "Etc/GMT-2", "", "error", "Mars/Olympus"}

EdgeArgs ==
    { [duration_minutes |-> d, search_days |-> n,
       work_hours_start |-> 9, work_hours_end |-> 17,
       exclude_weekends |-> x, calendar_id |-> "primary",
       calendar_ids |-> <<>>] :
      d \in EdgeDurations, n \in {0, 1}, x \in BOOLEAN }

FindFreeTimeEdge ==
    /\ pc = "ready"
    /\ \E a \in EdgeArgs, login_ok \in BOOLEAN, t \in EdgeNows,
          wd \in Weekdays, tzreply \in EdgeZoneReplies, busy \in EdgeLists :
          find_free_time(a, login_ok, t, wd, tzreply, OneCalendar(busy))

NextEdge == FindFreeTimeEdge

SpecEdge == Init /\ [][NextEdge]_vars

(***************************************************************************)
(* Specification: one find_free_time call over several calendars, each of  *)
(* which may be accessible, inaccessible or failing.                       *)
(***************************************************************************)
CalendarItems ==
    { <<>>,
      <<Timed(At(0, 10, 0), 0, MinutesPerHour)>>,           \* 10:00-11:00
      <<Timed(At(0, 13, 0), 0, 4 * MinutesPerHour)>> }      \* 13:00-17:00

CalendarContents ==
    { [c \in CalendarIds |->
          IF c = "primary" THEN [status |-> sp, items |-> ip]
          ELSE [status |-> sw, items |-> iw]] :
      sp \in Statuses, sw \in Statuses,
      ip \in CalendarItems, iw \in CalendarItems }

CalendarIdLists ==
    { <<>>, <<"work">>, <<"primary", "work">>, <<"work", "primary">>,
      <<"team@group.calendar.google.com", "work">> }

CalendarArgs ==
    { [duration_minutes |-> d, search_days |-> 1,
       work_hours_start |-> 9, work_hours_end |-> 17,
       exclude_weekends |-> FALSE, calendar_id |-> c,
       calendar_ids |-> ids] :
      d \in {30, 60}, c \in CalendarIds, ids \in CalendarIdLists }

FindFreeTimeCalendars ==
    /\ pc = "ready"
    /\ \E a \in CalendarArgs, login_ok \in BOOLEAN, cals \in CalendarContents :
          find_free_time(a, login_ok, At(0, 8, 0), 3,
                         IF cals["primary"].status = "ok" THEN "UTC"
                         ELSE "error",
                         cals)

NextCalendars == FindFreeTimeCalendars

SpecCalendars == Init /\ [][NextCalendars]_vars

(***************************************************************************)
(* delete_calendar, lines 383-455, as one step.  cals is what the API      *)
(* holds when the call starts; reply says how the API answers after the    *)
(* access check: the second calendars().get of line 418 and the            *)
(* calendars().delete of line 429.                                         *)
(***************************************************************************)
DeleteReplies ==
    {"ok", "get_404", "get_500", "get_crash",
     "delete_404", "delete_403", "delete_500", "delete_crash"}

Error(message) == [error |-> TRUE, message |-> message]
Message(message) == [error |-> FALSE, message |-> message]

\* delete_calendar without the test of lines 407-410
delete_calendar_run_unguarded(calendar_id, cals, reply) ==
    LET get == Req("calendars.get", calendar_id)
        delete == Req("calendars.delete", calendar_id)
        access == _validate_calendar_access(cals, calendar_id)
    IN IF access = "False"
       THEN [requests |-> <<get>>, out |-> Error("No access to calendar")]
       ELSE IF access = "HttpError"
       THEN [requests |-> <<get>>, out |-> Error("Google Calendar API error")]
       ELSE IF access = "Exception"
       THEN [requests |-> <<get>>, out |-> Error("Failed to delete calendar")]
       ELSE IF reply = "get_404"
       THEN [requests |-> <<get, get>>, out |-> Error("Calendar not found")]
       ELSE IF reply = "get_500"
       THEN [requests |-> <<get, get>>,
             out |-> Error("Failed to fetch calendar info")]
       ELSE IF reply = "get_crash"
       THEN [requests |-> <<get, get>>,
             out |-> Error("Failed to delete calendar")]
       ELSE [requests |-> <<get, get, delete>>,
             out |-> CASE reply = "ok" -> Message("deleted successfully")
                       [] reply = "delete_404" -> Error("Calendar not found")
                       [] reply = "delete_403" ->
                             Error("No permission to delete calendar")
                       [] reply = "delete_500" ->
                             Error("Google Calendar API error")
                       [] reply = "delete_crash" ->
                             Error("Failed to delete calendar")]

\* lines 406-455: the requests issued and the value returned once
\* authentication has passed
delete_calendar_run(calendar_id, cals, reply) ==
    IF calendar_id = "primary"
    THEN [requests |-> <<>>, out |-> Error("Cannot delete primary calendar")]
    ELSE delete_calendar_run_unguarded(calendar_id, cals, reply)

\* the calendars after the requests were served: a deleted calendar
\* answers 404 from then on
Served(cals, requests, out) ==
    [c \in DOMAIN cals |->
        IF ~out.error /\ \E i \in 1..Len(requests) :
                            requests[i] = Req("calendars.delete", c)
        THEN [status |-> "denied", items |-> <<>>]
        ELSE cals[c]]

delete_calendar(calendar_id, login_ok, cals, reply) ==
    LET auth == _ensure_authenticated(service, login_ok, creds, token_file)
        run == IF auth.raised
               THEN [requests |-> <<>>,
                     out |-> Error("Failed to delete calendar")]
               ELSE delete_calendar_run(calendar_id, cals, reply)
    IN /\ service' = auth.service
       /\ creds' = auth.creds
       /\ token_file' = auth.token_file
       /\ calendars' = Served(cals, run.requests, run.out)
       /\ calls' = Append(calls,
             Call("delete_calendar",
                  [calendar_id |-> calendar_id, calendars |-> cals],
                  service, auth, run.requests, run.out))
       /\ UNCHANGED <<now, weekday0, calendar_tz, args, pc, free_slots, ret,
                      history, event_status>>

(***************************************************************************)
(* logout, lines 1402-1408, with GoogleAuth.logout, googleauth.py lines    *)
(* 166-177.  remove_ok is the outcome of os.remove: when it raises, the    *)
(* handler of line 176 logs the error and lines 174-175 are not reached.   *)
(***************************************************************************)
auth_logout(cr, tf, remove_ok) ==
    IF tf /\ ~remove_ok
    THEN [creds |-> cr, token_file |-> tf]
    ELSE [creds |-> "None", token_file |-> FALSE]

logout(remove_ok) ==
    /\ creds' = auth_logout(creds, token_file, remove_ok).creds
    /\ token_file' = auth_logout(creds, token_file, remove_ok).token_file
    /\ service' = "None"
    /\ calls' = Append(calls,
          [tool |-> "logout", input |-> [remove_ok |-> remove_ok],
           service_before |-> service, login_invoked |-> FALSE,
           login_raised |-> FALSE, requests |-> <<>>,
           out |-> Message("logged out")])
    /\ UNCHANGED <<now, weekday0, calendar_tz, calendars, args, pc,
                   free_slots, ret, history, event_status>>

(***************************************************************************)
(* Specification: a toolkit object receives a sequence of delete_calendar  *)
(* and logout calls; a token file of an earlier run may exist.             *)
(***************************************************************************)
MaxToolCalls == 2       \* most calls in one sequence

DeleteIds == CalendarIds \cup {"gone@group.calendar.google.com"}

CalendarStates ==
    { [c \in CalendarIds |->
          [status |-> (IF c = "primary" THEN sp ELSE sw), items |-> <<>>]] :
      sp \in Statuses, sw \in Statuses }

InitTools ==
    /\ service = "None"
    /\ now = 0
    /\ weekday0 = 0
    /\ calendar_tz = "UTC"
    /\ calendars = OneCalendar(<<>>)
    /\ args = [duration_minutes |-> 30, search_days |-> 1,
               work_hours_start |-> 9, work_hours_end |-> 17,
               exclude_weekends |-> TRUE, calendar_id |-> "primary",
               calendar_ids |-> <<>>]
    /\ pc = "ready"
    /\ free_slots = <<>>
    /\ ret = [error |-> FALSE, free_slots |-> <<>>, calendars_checked |-> <<>>]
    /\ history = <<>>
    /\ token_file \in BOOLEAN
    /\ creds = "None"
    /\ event_status = [e \in EventIds |-> "ok"]
    /\ calls = <<>>

DeleteCalendar ==
    /\ Len(calls) < MaxToolCalls
    /\ \E calendar_id \in DeleteIds, login_ok \in BOOLEAN,
          cals \in CalendarStates, reply \in DeleteReplies :
          delete_calendar(calendar_id, login_ok, cals, reply)

Logout ==
    /\ Len(calls) < MaxToolCalls
    /\ \E remove_ok \in BOOLEAN : logout(remove_ok)

NextDelete == DeleteCalendar \/ Logout

SpecDelete == InitTools /\ [][NextDelete]_vars

(***************************************************************************)
(* Specification: a toolkit object receives a sequence of find_free_time,  *)
(* delete_calendar and logout calls, each of which may find the login      *)
(* failing; a token file of an earlier run may exist.                      *)
(***************************************************************************)
MaxAuthCalls == 3       \* most calls in one sequence

AuthCalendars == { cals \in CalendarStates : cals["work"].status = "ok" }

AuthFindFreeTime ==
    /\ Len(calls) < MaxAuthCalls
    /\ \E login_ok \in BOOLEAN, cals \in AuthCalendars :
          find_free_time(args, login_ok, At(0, 8, 0), 3, "UTC", cals)

AuthDeleteCalendar ==
    /\ Len(calls) < MaxAuthCalls
    /\ \E login_ok \in BOOLEAN, cals \in AuthCalendars :
          delete_calendar("work", login_ok, cals, "ok")

AuthLogout ==
    /\ Len(calls) < MaxAuthCalls
    /\ \E remove_ok \in BOOLEAN : logout(remove_ok)

NextAuth == AuthFindFreeTime \/ AuthDeleteCalendar \/ AuthLogout

SpecAuth == InitTools /\ [][NextAuth]_vars

(***************************************************************************)
(* move_multiple_events, lines 537-636, as one step.  statuses says, per   *)
(* event id, how the API answers events().get and events().move: "ok", or  *)
(* the request that fails and how (HTTP 404, 403, another HTTP status, or  *)
(* an exception that is no HttpError).                                     *)
(***************************************************************************)
MaxEvents == 2          \* most event ids in one call

EventStatuses ==
    {"ok", "get_404", "get_403", "get_500", "get_crash",
     "move_404", "move_403", "move_500", "move_crash"}

\* lines 577-621 for one event id: the requests and the results entry
move_one(event_id, status) ==
    LET get == Req("events.get", event_id)
        move == Req("events.move", event_id)
        failed(error) ==
            [event_id |-> event_id, status |-> "failed", error |-> error]
    IN CASE status = "ok" ->
              [requests |-> <<get, move>>,
               entry |-> [event_id |-> event_id, status |-> "success",
                          error |-> "none"]]
         [] status = "get_404" ->
              [requests |-> <<get>>, entry |-> failed("Event not found")]
         [] status = "get_403" ->
              [requests |-> <<get>>, entry |-> failed("Permission denied")]
         [] status = "get_500" ->
              [requests |-> <<get>>, entry |-> failed("API error")]
         [] status = "get_crash" ->
              [requests |-> <<get>>, entry |-> failed("Unexpected error")]
         [] status = "move_404" ->
              [requests |-> <<get, move>>, entry |-> failed("Event not found")]
         [] status = "move_403" ->
              [requests |-> <<get, move>>, entry |-> failed("Permission denied")]
         [] status = "move_500" ->
              [requests |-> <<get, move>>, entry |-> failed("API error")]
         [] status = "move_crash" ->
              [requests |-> <<get, move>>, entry |-> failed("Unexpected error")]

\* move_loop leaving the loop at the first event that fails
RECURSIVE move_loop_stops_at_failure(_, _)
move_loop_stops_at_failure(event_ids, statuses) ==
    IF event_ids = <<>> THEN [requests |-> <<>>, results |-> <<>>]
    ELSE LET one == move_one(Head(event_ids), statuses[Head(event_ids)])
             rest == IF one.entry.status = "failed"
                     THEN [requests |-> <<>>, results |-> <<>>]
                     ELSE move_loop_stops_at_failure(Tail(event_ids), statuses)
         IN [requests |-> one.requests \o rest.requests,
             results |-> <<one.entry>> \o rest.results]

\* lines 576-621: the loop over event_ids
RECURSIVE move_loop(_, _)
move_loop(event_ids, statuses) ==
    IF event_ids = <<>> THEN [requests |-> <<>>, results |-> <<>>]
    ELSE LET one == move_one(Head(event_ids), statuses[Head(event_ids)])
             rest == move_loop(Tail(event_ids), statuses)
         IN [requests |-> one.requests \o rest.requests,
             results |-> <<one.entry>> \o rest.results]

\* successful_moves and failed_moves: the entries with the given status
RECURSIVE CountStatus(_, _)
CountStatus(results, status) ==
    IF results = <<>> THEN 0
    ELSE (IF Head(results).status = status THEN 1 ELSE 0)
         + CountStatus(Tail(results), status)

\* lines 562-636: the requests issued and the value returned once
\* authentication has passed
move_multiple_events_run(event_ids, source_calendar_id, destination_calendar_id, cals, statuses) ==
    LET source == _validate_calendar_access(cals, source_calendar_id)
        destination == _validate_calendar_access(cals, destination_calendar_id)
        get_source == Req("calendars.get", source_calendar_id)
        get_destination == Req("calendars.get", destination_calendar_id)
        loop == move_loop(event_ids, statuses)
    IN IF source = "False"
       THEN [requests |-> <<get_source>>,
             out |-> Error("No access to source calendar")]
       ELSE IF source # "True"
       THEN [requests |-> <<get_source>>,
             out |-> Error("Failed to move events")]
       ELSE IF destination = "False"
       THEN [requests |-> <<get_source, get_destination>>,
             out |-> Error("No access to destination calendar")]
       ELSE IF destination # "True"
       THEN [requests |-> <<get_source, get_destination>>,
             out |-> Error("Failed to move events")]
       ELSE [requests |-> <<get_source, get_destination>> \o loop.requests,
             out |-> [error |-> FALSE,
                      message |-> "Batch move completed",
                      successful_moves |-> CountStatus(loop.results, "success"),
                      failed_moves |-> CountStatus(loop.results, "failed"),
                      results |-> loop.results]]

\* an event that was moved is no longer found in the source calendar
Moved(statuses, requests) ==
    [e \in DOMAIN statuses |->
        IF statuses[e] = "ok" /\ \E i \in 1..Len(requests) :
                                    requests[i] = Req("events.move", e)
        THEN "get_404"
        ELSE statuses[e]]

move_multiple_events(event_ids, source_calendar_id, destination_calendar_id, login_ok, cals, statuses) ==
    LET auth == _ensure_authenticated(service, login_ok, creds, token_file)
        run == IF auth.raised
               THEN [requests |-> <<>>, out |-> Error("Failed to move events")]
               ELSE move_multiple_events_run(event_ids, source_calendar_id,
                                             destination_calendar_id, cals,
                                             statuses)
    IN /\ service' = auth.service
       /\ creds' = auth.creds
       /\ token_file' = auth.token_file
       /\ calendars' = cals
       /\ event_status' = Moved(statuses, run.requests)
       /\ calls' = Append(calls,
             Call("move_multiple_events",
                  [event_ids |-> event_ids,
                   source_calendar_id |-> source_calendar_id,
                   destination_calendar_id |-> destination_calendar_id,
                   calendars |-> cals, statuses |-> statuses],
                  service, auth, run.requests, run.out))
       /\ UNCHANGED <<now, weekday0, calendar_tz, args, pc, free_slots, ret,
                      history>>

(***************************************************************************)
(* Specification: a freshly constructed toolkit receives one               *)
(* move_multiple_events call.                                              *)
(***************************************************************************)
\* the lists of at most MaxEvents distinct event ids
EventIdLists ==
    { ids \in UNION { [1..n -> EventIds] : n \in 0..MaxEvents } :
        \A i, j \in 1..Len(ids) : i # j => ids[i] # ids[j] }

\* the answers for the listed events; an event that is not listed is "ok"
StatusesFor(event_ids) ==
    { st \in [EventIds -> EventStatuses] :
        \A e \in EventIds :
            (\A i \in 1..Len(event_ids) : event_ids[i] # e) => st[e] = "ok" }

MovePairs ==
    { <<"primary", "work">>, <<"work", "primary">>,
      <<"primary", "gone@group.calendar.google.com">> }

MoveMultipleEvents ==
    /\ calls = <<>>
    /\ \E event_ids \in EventIdLists, pair \in MovePairs,
          login_ok \in BOOLEAN, cals \in CalendarStates :
          \E statuses \in StatusesFor(event_ids) :
             move_multiple_events(event_ids, pair[1], pair[2], login_ok, cals,
                                  statuses)

NextMove == MoveMultipleEvents

SpecMove == InitTools /\ [][NextMove]_vars

(***************************************************************************)
(* The Scheduler toolkit (src/agendo/tools/Scheduler.py).  It works on its *)
(* own calendar toolkit object, so the state of the one modelled above is  *)
(* left alone.                                                             *)
(*                                                                         *)
(* _parse_human_time, lines 106-148.  The time input is one of: a phrase   *)
(* with a default time; an hour (and minute) with "am" or "pm"; a 24-hour  *)
(* "HH:MM"; anything else.  A parsed time is [hour, minute].               *)
(***************************************************************************)
LastHour == 23          \* min(start_hour + 1, 23)
DefaultHour == 9        \* "09:00:00"
Noon == 12

\* time_mappings, lines 112-115
time_mappings(phrase) ==
    CASE phrase = "morning" -> [hour |-> 9, minute |-> 0]
      [] phrase = "afternoon" -> [hour |-> 14, minute |-> 0]
      [] phrase = "evening" -> [hour |-> 18, minute |-> 0]
      [] phrase = "noon" -> [hour |-> Noon, minute |-> 0]

\* lines 117-139
start_time(time_input) ==
    CASE time_input.form = "phrase" -> time_mappings(time_input.phrase)
      [] time_input.form = "ampm" ->
            [hour |-> IF time_input.suffix = "pm" /\ time_input.hour # Noon
                      THEN time_input.hour + Noon
                      ELSE IF time_input.suffix = "am" /\ time_input.hour = Noon
                      THEN 0
                      ELSE time_input.hour,
             minute |-> time_input.minute]
      [] time_input.form = "clock" ->
            [hour |-> time_input.hour, minute |-> time_input.minute]
      [] time_input.form = "other" -> [hour |-> DefaultHour, minute |-> 0]

\* lines 141-146: the pair of datetimes returned
_parse_human_time(time_input, date) ==
    LET start == start_time(time_input)
        end_hour == Min(start.hour + 1, LastHour)
    IN [start |-> [date |-> date, hour |-> start.hour, minute |-> start.minute],
        end |-> [date |-> date, hour |-> end_hour, minute |-> start.minute]]

(***************************************************************************)
(* find_free_time_blocks, lines 463-514.  items is the schedule that       *)
(* get_schedule_range returned: an item has the date its 'time' string     *)
(* names, is all-day or timed, and a timed item runs from start to end     *)
(* (minutes of that day).  hours_needed is a whole number of hours.        *)
(***************************************************************************)
ScheduleItem(date, all_day, start, end) ==
    [date |-> date, all_day |-> all_day, start |-> start, end |-> end]

\* line 487
day_items(items, date) == SelectSeq(items, LAMBDA item : item.date = date)

\* line 492
busy_hours(items, date) ==
    Len(SelectSeq(day_items(items, date), LAMBDA item : ~item.all_day))

\* line 494
estimated_free_hours(items, date, working_hours) ==
    Max(0, (working_hours[2] - working_hours[1]) - busy_hours(items, date))

\* lines 485-505: the loop over the days of the range
RECURSIVE free_blocks(_, _, _, _, _)
free_blocks(items, current_date, end_date, hours_needed, working_hours) ==
    IF current_date > end_date THEN <<>>
    ELSE (IF estimated_free_hours(items, current_date, working_hours)
                >= hours_needed
          THEN <<[date |-> current_date,
                  estimated_free_hours |->
                      estimated_free_hours(items, current_date, working_hours),
                  busy_items |-> Len(day_items(items, current_date))]>>
          ELSE <<>>)
         \o free_blocks(items, current_date + 1, end_date, hours_needed,
                        working_hours)

\* lines 466-514: the value returned; get_schedule_range answers with an
\* error when it fails or when the range is reversed (Scheduler.py line 227)
find_free_time_blocks(hours_needed, date_range, working_hours, items, schedule_ok) ==
    IF ~schedule_ok \/ date_range[1] > date_range[2]
    THEN [error |-> TRUE, recommendations |-> <<>>, free_blocks_found |-> 0]
    ELSE LET blocks == free_blocks(items, date_range[1], date_range[2],
                                   hours_needed, working_hours)
         IN [error |-> FALSE, recommendations |-> blocks,
             free_blocks_found |-> Len(blocks)]

\* a call of a Scheduler function, recorded like a tool call
SchedulerCall(tool, input, out) ==
    [tool |-> tool, input |-> input, service_before |-> service,
     login_invoked |-> FALSE, login_raised |-> FALSE, requests |-> <<>>,
     out |-> out]

(***************************************************************************)
(* Specification: one call of a Scheduler function.                        *)
(***************************************************************************)
MaxItems == 2           \* most items in the schedule

TimeInputs ==
    { [form |-> "phrase", phrase |-> ph] :
        ph \in {"morning", "afternoon", "evening", "noon"} }
    \cup { [form |-> "ampm", hour |-> h, minute |-> m, suffix |-> sf] :
             h \in 1..12, m \in {0, 30}, sf \in {"am", "pm"} }
    \cup { [form |-> "clock", hour |-> h, minute |-> m] :
             h \in 0..LastHour, m \in {0, 30} }
    \cup { [form |-> "other"] }

ScheduleCatalogue ==
    << ScheduleItem(0, TRUE, 0, MinutesPerDay),                \* all day
       ScheduleItem(0, FALSE, At(0, 9, 0), At(0, 17, 0)),      \* 09:00-17:00
       ScheduleItem(0, FALSE, At(0, 10, 0), At(0, 11, 0)),     \* 10:00-11:00
       ScheduleItem(0, FALSE, At(0, 13, 0), At(0, 13, 30)),    \* 13:00-13:30
       ScheduleItem(1, FALSE, At(0, 10, 0), At(0, 11, 0)) >>   \* 10:00-11:00 (+1)

Schedules ==
    { PickFrom(ScheduleCatalogue, indices, 1) : indices \in
        { S \in SUBSET (1..Len(ScheduleCatalogue)) : Cardinality(S) <= MaxItems } }

HoursNeeded == {0, 1, 2, 8}
DateRanges == {<<0, 0>>, <<0, 1>>, <<1, 0>>}

ParseHumanTime ==
    /\ calls = <<>>
    /\ \E time_input \in TimeInputs, date \in {0, 1} :
          calls' = <<SchedulerCall("_parse_human_time",
                                   [time_input |-> time_input, date |-> date],
                                   _parse_human_time(time_input, date))>>
    /\ UNCHANGED <<service, now, weekday0, calendar_tz, calendars, args, pc,
                   free_slots, ret, history, token_file, creds, event_status>>

FindFreeTimeBlocks ==
    /\ calls = <<>>
    /\ \E hours_needed \in HoursNeeded, date_range \in DateRanges,
          working_hours \in WorkHours, items \in Schedules,
          schedule_ok \in BOOLEAN :
          calls' = <<SchedulerCall("find_free_time_blocks",
                        [hours_needed |-> hours_needed,
                         date_range |-> date_range,
                         working_hours |-> working_hours, items |-> items],
                        find_free_time_blocks(hours_needed, date_range,
                                              working_hours, items,
                                              schedule_ok))>>
    /\ UNCHANGED <<service, now, weekday0, calendar_tz, calendars, args, pc,
                   free_slots, ret, history, token_file, creds, event_status>>

NextScheduler == ParseHumanTime \/ FindFreeTimeBlocks

SpecScheduler == Init /\ [][NextScheduler]_vars

(***************************************************************************)
(* What a finished call saw, for stating the properties.                   *)
(***************************************************************************)
\* the call returned a free_slots list, not an error
Returned == pc = "done" /\ ~ret.error

\* the zone of the scan and the busy list the scan worked on
Tz == user_tz(_get_user_timezone(calendar_tz))
Busy == all_events(calendars, calendars_to_check(args), now,
                   now + args.search_days * MinutesPerDay)

FirstDate == DateOf(now, Tz)
LastDate == DateOf(now + args.search_days * MinutesPerDay, Tz)
EligibleDates == { k \in FirstDate..LastDate : ~SkipDay(k, args, weekday0) }

WindowStart(k) == Localize(k, args.work_hours_start, Tz)
WindowEnd(k) == Localize(k, args.work_hours_end, Tz)
ClampedStart(k) == Max(WindowStart(k), now)

\* the timed busy intervals attributed to date k
TimedOn(k) ==
    { i \in 1..Len(Busy) :
        Busy[i].hasDateTime /\ DateOf(EventStart(Busy[i]), Tz) = k }

SlotsOn(slots, k) == { i \in 1..Len(slots) : slots[i].date = k }

ValidConfig ==
    args.duration_minutes > 0 /\ args.work_hours_start < args.work_hours_end

(***************************************************************************)
(* C1: the list of free slots find_free_time returns has at most 10        *)
(* entries, whatever the busy list, horizon, duration and working hours.   *)
(***************************************************************************)
C1_AtMostTen == Returned => Len(ret.free_slots) <= MaxResults

\* the scan found more than 10 slots and the call returned 10 of them
C1_Witness ==
    Returned /\ Len(free_slots) > MaxResults /\ Len(ret.free_slots) = MaxResults

(***************************************************************************)
(* C2: find_free_time never proposes a slot in the past: every returned    *)
(* slot starts at or after now, the instant the scan began.                *)
(***************************************************************************)
C2_NotInPast ==
    Returned =>
        \A i \in 1..Len(ret.free_slots) :
            ret.free_slots[i].start_time >= Naive(now, Tz)

\* the call came inside the working hours of the first day and the first
\* slot starts at now
C2_Witness ==
    /\ Returned
    /\ WindowStart(FirstDate) < now
    /\ Len(ret.free_slots) >= 1
    /\ ret.free_slots[1].start_time = Naive(now, Tz)

(***************************************************************************)
(* C3: every returned slot lies inside the working-hours window of its     *)
(* day: it starts at or after work_hours_start:00 and ends at or before    *)
(* work_hours_end:00 of the same local day.  Stated for valid              *)
(* configurations (positive duration, start hour before end hour).         *)
(***************************************************************************)
C3_InsideWorkingHours ==
    (Returned /\ ValidConfig) =>
        \A i \in 1..Len(ret.free_slots) :
            LET slot == ret.free_slots[i]
            IN /\ slot.start_time >= Naive(WindowStart(slot.date), Tz)
               /\ slot.end_time <= Naive(WindowEnd(slot.date), Tz)

(***************************************************************************)
(* C4 as stated: with an empty busy list find_free_time returns exactly    *)
(* one slot per eligible day (every scanned day that is not an excluded    *)
(* weekend day), each of length exactly duration_minutes.  Stated for     *)
(* valid configurations.                                                   *)
(***************************************************************************)
NoBusy == Busy = <<>>

C4_OnePerEligibleDay ==
    (Returned /\ NoBusy /\ ValidConfig) =>
        /\ Len(ret.free_slots) = Cardinality(EligibleDates)
        /\ \A i \in 1..Len(ret.free_slots) :
              ret.free_slots[i].end_time - ret.free_slots[i].start_time
                  = args.duration_minutes

\* the eligible days whose window, clamped to now, is not empty and is at
\* least duration_minutes long
FittingDates ==
    { k \in EligibleDates :
        /\ ClampedStart(k) < WindowEnd(k)
        /\ WindowEnd(k) - ClampedStart(k) >= args.duration_minutes }

(***************************************************************************)
(* C4 amended: with an empty busy list find_free_time returns one slot for *)
(* each eligible day whose window, clamped to now, is not empty and at     *)
(* least duration_minutes long, none for any other day, and only the       *)
(* first 10 of them; each slot starts at the clamped window start and has  *)
(* length exactly duration_minutes.                                        *)
(***************************************************************************)
C4_OnePerFittingDay ==
    (Returned /\ NoBusy) =>
        /\ Len(ret.free_slots) = Min(Cardinality(FittingDates), MaxResults)
        /\ \A i \in 1..Len(ret.free_slots) :
              LET slot == ret.free_slots[i]
              IN /\ slot.date \in FittingDates
                 /\ Cardinality({ k \in FittingDates : k < slot.date }) = i - 1
                 /\ slot.start_time = Naive(ClampedStart(slot.date), Tz)
                 /\ slot.end_time - slot.start_time = args.duration_minutes

\* an empty busy list, a first day that is eligible but too short after the
\* clamp, and slots on later days
C4_Witness ==
    /\ Returned /\ NoBusy /\ ValidConfig
    /\ FirstDate \in EligibleDates \ FittingDates
    /\ Len(ret.free_slots) >= 2

(***************************************************************************)
(* C5: a day whose working window [day_start, day_end) is entirely covered *)
(* by busy intervals (one spanning interval or several back-to-back ones)  *)
(* contributes zero slots.  Stated for valid configurations and for        *)
(* intervals attributed to that day.                                       *)
(***************************************************************************)
\* instant p lies inside a timed busy interval attributed to date k
BusyAt(k, p) ==
    \E i \in TimedOn(k) : EventStart(Busy[i]) <= p /\ p < EventEnd(Busy[i])

\* [from, to) is covered by the busy intervals of date k: its first instant
\* is busy and so is every instant of it at which a busy interval ends
Covered(k, from, to) ==
    /\ from < to
    /\ BusyAt(k, from)
    /\ \A i \in TimedOn(k) :
          (from <= EventEnd(Busy[i]) /\ EventEnd(Busy[i]) < to)
              => BusyAt(k, EventEnd(Busy[i]))

C5_CoveredDayHasNoSlot ==
    (Returned /\ ValidConfig) =>
        \A k \in EligibleDates :
            Covered(k, WindowStart(k), WindowEnd(k))
                => SlotsOn(ret.free_slots, k) = {}

(***************************************************************************)
(* C6: every returned slot is truncated to the requested duration: for     *)
(* duration_minutes > 0 its end is exactly duration_minutes after its      *)
(* start (so it was emitted for a gap at least that long),                 *)
(* duration_minutes of the slot is end - start in minutes and is >= 1.     *)
(***************************************************************************)
C6_TruncatedToDuration ==
    (Returned /\ args.duration_minutes > 0) =>
        \A i \in 1..Len(ret.free_slots) :
            LET slot == ret.free_slots[i]
            IN /\ slot.end_time - slot.start_time = args.duration_minutes
               /\ slot.duration_minutes = slot.end_time - slot.start_time
               /\ slot.duration_minutes >= 1

\* a slot cut out of a longer gap: the busy interval that ends the gap
\* starts later than the slot ends
C6_Witness ==
    /\ Returned /\ args.duration_minutes > 0
    /\ \E i \in 1..Len(ret.free_slots) :
          \E j \in TimedOn(ret.free_slots[i].date) :
              /\ Naive(EventStart(Busy[j]), Tz) > ret.free_slots[i].end_time
              /\ \A h \in TimedOn(ret.free_slots[i].date) :
                    EventStart(Busy[h]) >= EventStart(Busy[j])

(***************************************************************************)
(* C7: at most one slot per gap: between two slots of the same day lies a  *)
(* busy interval of that day (the first slot ends at or before it starts,  *)
(* the second starts at or after it ends), and a day with n timed busy     *)
(* intervals yields at most n + 1 slots.                                   *)
(***************************************************************************)
C7_OneSlotPerGap ==
    Returned =>
        \A k \in FirstDate..LastDate :
            /\ Cardinality(SlotsOn(free_slots, k)) <= Cardinality(TimedOn(k)) + 1
            /\ \A i, j \in SlotsOn(free_slots, k) :
                  i < j =>
                    \E b \in TimedOn(k) :
                        /\ free_slots[i].end_time <= Naive(EventStart(Busy[b]), Tz)
                        /\ Naive(EventEnd(Busy[b]), Tz) <= free_slots[j].start_time

\* a day with one busy interval and a slot on either side of it
C7_Witness ==
    /\ Returned
    /\ \E k \in FirstDate..LastDate :
          Cardinality(TimedOn(k)) = 1 /\ Cardinality(SlotsOn(ret.free_slots, k)) = 2

(***************************************************************************)
(* C8: the returned slots are ordered by day ascending and                 *)
(* chronologically within each day (each slot starts before the next       *)
(* one), and the cap of 10 keeps the earliest slots found.                 *)
(***************************************************************************)
C8_Chronological ==
    Returned =>
        /\ \A i \in 1..(Len(free_slots) - 1) :
              /\ free_slots[i].date <= free_slots[i + 1].date
              /\ free_slots[i].start_time < free_slots[i + 1].start_time
        /\ Len(ret.free_slots) = Min(Len(free_slots), MaxResults)
        /\ \A i \in 1..Len(ret.free_slots) : ret.free_slots[i] = free_slots[i]

\* more than 10 slots were found, two of them on the same day
C8_Witness ==
    /\ Returned
    /\ Len(free_slots) > MaxResults
    /\ \E i \in 1..(Len(ret.free_slots) - 1) :
          ret.free_slots[i].date = ret.free_slots[i + 1].date

(***************************************************************************)
(* C9: with exclude_weekends no returned slot falls on a Saturday or a     *)
(* Sunday, even if that day is completely free; without it a weekend day   *)
(* is scanned like any other day, so a free weekend day whose clamped      *)
(* window fits the duration has a slot among the slots found.              *)
(***************************************************************************)
IsWeekend(k) == weekday(k, weekday0) \in {5, 6}

C9_WeekendExclusion ==
    Returned =>
        /\ args.exclude_weekends =>
              \A i \in 1..Len(ret.free_slots) :
                  /\ ~IsWeekend(ret.free_slots[i].date)
                  /\ ~IsWeekend(ret.free_slots[i].start_time \div MinutesPerDay)
        /\ ~args.exclude_weekends =>
              \A k \in FirstDate..LastDate :
                  (/\ IsWeekend(k)
                   /\ TimedOn(k) = {}
                   /\ ClampedStart(k) < WindowEnd(k)
                   /\ WindowEnd(k) - ClampedStart(k) >= args.duration_minutes)
                      => Cardinality(SlotsOn(free_slots, k)) = 1

\* weekends are excluded, the range holds a Saturday and a Sunday without
\* any busy interval, and slots were returned for other days
C9_Witness ==
    /\ Returned /\ ValidConfig /\ args.exclude_weekends
    /\ \E k \in FirstDate..(LastDate - 1) :
          /\ weekday(k, weekday0) = 5
          /\ TimedOn(k) = {} /\ TimedOn(k + 1) = {}
          /\ \E i \in 1..Len(ret.free_slots) : ret.free_slots[i].date > k + 1
    /\ Len(ret.free_slots) >= 2

(***************************************************************************)
(* C10: monotonicity in the duration.  With everything else fixed, a       *)
(* larger duration_minutes never returns more slots than a smaller one,    *)
(* and a day whose largest available gap (free time inside its clamped     *)
(* working window, between the busy intervals of that day) is shorter      *)
(* than the duration contributes no slot.  Stated for valid                *)
(* configurations.                                                         *)
(***************************************************************************)
\* the clamped window of date k has d free minutes in a row: they begin at
\* the window start or where a busy interval of the day ends
FitsWindow(k, d) ==
    \E p \in {ClampedStart(k)} \cup { EventEnd(Busy[i]) : i \in TimedOn(k) } :
        /\ p >= ClampedStart(k)
        /\ p + d <= WindowEnd(k)
        /\ \A i \in TimedOn(k) :
              EventEnd(Busy[i]) <= p \/ EventStart(Busy[i]) >= p + d

C10_MonotoneInDuration ==
    (Returned /\ ValidConfig) =>
        /\ \A d1 \in Durations :
              (0 < d1 /\ d1 < args.duration_minutes) =>
                  Len(ret.free_slots) <=
                      Len(Cap(Scan(Busy, now,
                                   [args EXCEPT !.duration_minutes = d1],
                                   Tz, weekday0)))
        /\ \A k \in EligibleDates :
              ~FitsWindow(k, args.duration_minutes)
                  => SlotsOn(ret.free_slots, k) = {}

(***************************************************************************)
(* C11: the scan is deterministic and stateless: calls with identical busy *)
(* intervals, configuration and now that return slots return identical     *)
(* output, whatever earlier calls wrote (the cached service handle         *)
(* included).                                                              *)
(***************************************************************************)
C11_Deterministic ==
    \A i, j \in 1..Len(history) :
        (~history[i].ret.error /\ ~history[j].ret.error)
            => history[i].ret = history[j].ret

\* two calls returned slots, the second one through the cached service
\* handle (a login would have failed)
C11_Witness ==
    /\ Len(history) = 2
    /\ service = "svc"
    /\ ~history[1].ret.error /\ ~history[2].ret.error
    /\ ~history[2].login_ok
    /\ Len(history[2].ret.free_slots) >= 2

(***************************************************************************)
(* C12: an invalid configuration (duration_minutes <= 0, or                *)
(* work_hours_start >= work_hours_end) is rejected before any scanning:    *)
(* the call returns an error and no slot is computed or returned.          *)
(***************************************************************************)
C12_InvalidConfigRejected ==
    (pc = "done" /\ ~ValidConfig) =>
        /\ ret.error
        /\ free_slots = <<>>
        /\ ret.free_slots = <<>>

(***************************************************************************)
(* C13: a busy interval with a malformed (unparseable) start or end is     *)
(* skipped individually: the call still returns the slots computed from    *)
(* the remaining well-formed intervals instead of an error.                *)
(***************************************************************************)
RECURSIVE WellFormed(_)
WellFormed(events) ==
    IF events = <<>> THEN <<>>
    ELSE (IF Head(events).parses = "ok" THEN <<Head(events)>> ELSE <<>>)
         \o WellFormed(Tail(events))

\* the call ran logged in and every calendar answered
Scanned ==
    /\ pc = "done"
    /\ service = "svc"
    /\ ~Raises(calendars, calendars_to_check(args))

C13_MalformedSkipped ==
    Scanned =>
        /\ ~ret.error
        /\ ret.free_slots =
              Cap(Scan(WellFormed(Busy), now, args, Tz, weekday0))

(***************************************************************************)
(* C14: an unresolvable time zone never makes find_free_time fail: the     *)
(* scan uses UTC and returns the slots of the UTC scan; and                *)
(* _get_user_timezone answers 'UTC' whenever the lookup raised or carried  *)
(* no timeZone.                                                            *)
(***************************************************************************)
C14_ZoneFallsBackToUtc ==
    (Scanned /\ WellFormed(Busy) = Busy /\ calendar_tz \notin KnownZones) =>
        /\ ~ret.error
        /\ ret.free_slots = Cap(Scan(Busy, now, args, 0, weekday0))
        /\ \A i \in 1..Len(ret.free_slots) :
              LET slot == ret.free_slots[i]
              IN slot.start_time >=
                    Max(now, Localize(slot.date, args.work_hours_start, 0))
        /\ calendar_tz \in {"error", ""}
              => _get_user_timezone(calendar_tz) = "UTC"

\* the calendar reported a zone pytz does not know and slots were returned
C14_Witness ==
    /\ Scanned
    /\ calendar_tz \notin KnownZones \cup {"error", ""}
    /\ ~ret.error
    /\ Len(ret.free_slots) >= 2

(***************************************************************************)
(* C15: all-day entries (a date, no dateTime) never block slots: the       *)
(* result of find_free_time is the result for the busy list with every     *)
(* all-day entry removed.                                                  *)
(***************************************************************************)
RECURSIVE TimedOnly(_)
TimedOnly(events) ==
    IF events = <<>> THEN <<>>
    ELSE (IF Head(events).hasDateTime THEN <<Head(events)>> ELSE <<>>)
         \o TimedOnly(Tail(events))

C15_AllDayNeverBlocks ==
    Returned =>
        /\ free_slots = Scan(TimedOnly(Busy), now, args, Tz, weekday0)
        /\ ret.free_slots = Cap(free_slots)

\* an all-day entry on a day for which a slot was returned
C15_Witness ==
    /\ Returned
    /\ \E i \in 1..Len(Busy) :
          /\ ~Busy[i].hasDateTime
          /\ SlotsOn(ret.free_slots, DateOf(EventStart(Busy[i]), Tz)) # {}

(***************************************************************************)
(* C16: find_free_time scans exactly the days from now.date() to           *)
(* now.date() + search_days inclusive: no slot lies on a day outside that  *)
(* range, and every eligible day inside it is scanned, which shows on the  *)
(* days that have no timed busy interval and whose clamped window fits the *)
(* duration: each of them has exactly one slot, at the clamped window      *)
(* start.                                                                  *)
(***************************************************************************)
C16_ScansHorizonInclusive ==
    Returned =>
        /\ \A i \in 1..Len(free_slots) :
              /\ free_slots[i].date >= DateOf(now, Tz)
              /\ free_slots[i].date <= DateOf(now, Tz) + args.search_days
        /\ \A i \in 1..Len(ret.free_slots) :
              ret.free_slots[i].date \in
                  DateOf(now, Tz)..(DateOf(now, Tz) + args.search_days)
        /\ \A k \in DateOf(now, Tz)..(DateOf(now, Tz) + args.search_days) :
              (k \in FittingDates /\ TimedOn(k) = {})
                  => \E i \in 1..Len(free_slots) :
                        /\ SlotsOn(free_slots, k) = {i}
                        /\ free_slots[i].start_time = Naive(ClampedStart(k), Tz)

\* a horizon of several days with a returned slot on its first and on its
\* last day
C16_Witness ==
    /\ Returned
    /\ args.search_days >= 1
    /\ SlotsOn(ret.free_slots, DateOf(now, Tz)) # {}
    /\ SlotsOn(ret.free_slots, DateOf(now, Tz) + args.search_days) # {}

(***************************************************************************)
(* C17: a day with one busy interval strictly inside the working window,   *)
(* called before the window starts, with both surrounding gaps at least    *)
(* duration_minutes long, has exactly two slots:                           *)
(* [day_start, day_start + duration) and [busy.end, busy.end + duration).  *)
(***************************************************************************)
\* b is the only timed interval of date k, strictly inside the window, with
\* a gap of at least duration_minutes on either side
OneBusyInside(k, b) ==
    /\ TimedOn(k) = {b}
    /\ now <= WindowStart(k)
    /\ WindowStart(k) < EventStart(Busy[b])
    /\ EventEnd(Busy[b]) < WindowEnd(k)
    /\ EventStart(Busy[b]) - WindowStart(k) >= args.duration_minutes
    /\ WindowEnd(k) - EventEnd(Busy[b]) >= args.duration_minutes

TwoSlots(k, b) ==
    << FreeSlot(WindowStart(k), WindowStart(k) + args.duration_minutes, Tz),
       FreeSlot(EventEnd(Busy[b]),
                EventEnd(Busy[b]) + args.duration_minutes, Tz) >>

C18_InclusiveGapTest ==
    (Returned /\ ValidConfig) =>
        \A k \in EligibleDates :
            /\ TimedOn(k) = {} =>
                  /\ WindowEnd(k) - ClampedStart(k) = args.duration_minutes
                        => \E i \in 1..Len(free_slots) :
                              /\ SlotsOn(free_slots, k) = {i}
                              /\ free_slots[i] =
                                    FreeSlot(ClampedStart(k), WindowEnd(k), Tz)
                  /\ WindowEnd(k) - ClampedStart(k) = args.duration_minutes - 1
                        => SlotsOn(free_slots, k) = {}
            /\ \A b \in 1..Len(Busy) :
                  TimedOn(k) = {b} =>
                      /\ EventStart(Busy[b]) - ClampedStart(k)
                            = args.duration_minutes
                            => \E i \in SlotsOn(free_slots, k) :
                                  free_slots[i] =
                                      FreeSlot(ClampedStart(k),
                                               EventStart(Busy[b]), Tz)
                      /\ EventStart(Busy[b]) - ClampedStart(k)
                            = args.duration_minutes - 1
                            => \A i \in SlotsOn(free_slots, k) :
                                  free_slots[i].start_time
                                      # Naive(ClampedStart(k), Tz)

\* called at 09:01 for 480 minutes in hours 9-17: today's gap is one minute
\* short and has no slot, tomorrow's slot is 09:00-17:00
C18_Witness ==
    /\ Returned /\ ValidConfig
    /\ args.duration_minutes = 8 * MinutesPerHour
    /\ \E k \in EligibleDates :
          /\ TimedOn(k) = {}
          /\ WindowEnd(k) - ClampedStart(k) = args.duration_minutes - 1
          /\ SlotsOn(ret.free_slots, k) = {}
    /\ \E k \in EligibleDates :
          /\ TimedOn(k) = {}
          /\ WindowEnd(k) - ClampedStart(k) = args.duration_minutes
          /\ \E i \in SlotsOn(ret.free_slots, k) :
                /\ ret.free_slots[i].start_time = Naive(WindowStart(k), Tz)
                /\ ret.free_slots[i].end_time = Naive(WindowEnd(k), Tz)

(***************************************************************************)
(* C19: if, after clamping to now, day_start is already at or after        *)
(* day_end (the call happens after the end of today's working hours), no   *)
(* slot is emitted for that day, whatever busy intervals start on it.      *)
(* Stated for valid configurations.                                        *)
(***************************************************************************)
C19_NoSlotAfterHours ==
    (Returned /\ ValidConfig) =>
        \A k \in EligibleDates :
            ClampedStart(k) >= WindowEnd(k) => SlotsOn(free_slots, k) = {}

(***************************************************************************)
(* C20: the scan does not depend on busy intervals being pre-merged:       *)
(* find_free_time returns the same slots as for the list in which every    *)
(* group of overlapping or adjacent intervals is replaced by its union.    *)
(* Groups are formed among the intervals attributed to the same day, the   *)
(* union keeps the start of its earliest member.                           *)
(***************************************************************************)
RECURSIVE InsertChrono(_, _)
InsertChrono(event, sorted) ==
    IF sorted = <<>> THEN <<event>>
    ELSE IF EventStart(event) < EventStart(Head(sorted))
         THEN <<event>> \o sorted
         ELSE <<Head(sorted)>> \o InsertChrono(event, Tail(sorted))

RECURSIVE SortChrono(_, _)
SortChrono(events, acc) ==
    IF events = <<>> THEN acc
    ELSE SortChrono(Tail(events), InsertChrono(Head(events), acc))

\* events in ascending order of start; cur is the union being built
RECURSIVE MergeFrom(_, _, _)
MergeFrom(cur, events, tz) ==
    IF events = <<>> THEN <<cur>>
    ELSE LET next == Head(events)
         IN IF /\ DateOf(EventStart(next), tz) = DateOf(EventStart(cur), tz)
               /\ EventStart(next) <= EventEnd(cur)
            THEN MergeFrom([cur EXCEPT !.len = Max(EventEnd(cur), EventEnd(next))
                                                  - EventStart(cur)],
                           Tail(events), tz)
            ELSE <<cur>> \o MergeFrom(next, Tail(events), tz)

Merged(events, tz) ==
    LET timed == SortChrono(TimedOnly(events), <<>>)
    IN IF timed = <<>> THEN <<>> ELSE MergeFrom(Head(timed), Tail(timed), tz)

C20_MergeInvariant ==
    Returned =>
        /\ free_slots = Scan(Merged(Busy, Tz), now, args, Tz, weekday0)
        /\ ret.free_slots = Cap(Scan(Merged(Busy, Tz), now, args, Tz, weekday0))

(***************************************************************************)
(* C21: delete_calendar never deletes the primary calendar: called with    *)
(* calendar_id = "primary" it returns an error value and issues no         *)
(* calendars().delete request (no request for the primary calendar at      *)
(* all), whether or not a service is cached, the login succeeds, or the    *)
(* calendars are accessible.                                               *)
(***************************************************************************)
C21_PrimaryNeverDeleted ==
    \A i \in 1..Len(calls) :
        (calls[i].tool = "delete_calendar"
            /\ calls[i].input.calendar_id = "primary") =>
            /\ calls[i].out.error
            /\ \A j \in 1..Len(calls[i].requests) :
                  calls[i].requests[j].op # "calendars.delete"

\* delete_calendar("primary") on a logged-in toolkit with an accessible
\* primary calendar and an API that would carry out the deletion
C21_Witness ==
    /\ Len(calls) = 2
    /\ calls[2].tool = "delete_calendar"
    /\ calls[2].input.calendar_id = "primary"
    /\ calls[2].input.calendars["primary"].status = "ok"
    /\ calls[2].service_before = "svc"
    /\ calls[1].tool = "delete_calendar"
    /\ ~calls[1].out.error
    /\ calls[2].out = Error("Cannot delete primary calendar")

(***************************************************************************)
(* C22: move_multiple_events processes every event id independently: once  *)
(* both calendars are accessible, the result has exactly one entry per     *)
(* input id in input order, successful_moves + failed_moves =              *)
(* len(event_ids), and a failure on one event does not prevent the move of *)
(* any later event: every event the API can move is requested to move and  *)
(* reported as a success, whatever happened to the events before it.       *)
(***************************************************************************)
\* call i is a move_multiple_events call that passed authentication and
\* found both calendars accessible
MovePassedAccess(i) ==
    /\ calls[i].tool = "move_multiple_events"
    /\ ~calls[i].login_raised
    /\ _validate_calendar_access(calls[i].input.calendars,
                                 calls[i].input.source_calendar_id) = "True"
    /\ _validate_calendar_access(calls[i].input.calendars,
                                 calls[i].input.destination_calendar_id) = "True"

C22_EveryEventProcessed ==
    \A i \in 1..Len(calls) :
        MovePassedAccess(i) =>
            LET ids == calls[i].input.event_ids
                out == calls[i].out
            IN /\ ~out.error
               /\ Len(out.results) = Len(ids)
               /\ out.successful_moves + out.failed_moves = Len(ids)
               /\ \A k \in 1..Len(ids) :
                     /\ out.results[k].event_id = ids[k]
                     /\ calls[i].input.statuses[ids[k]] = "ok" =>
                           /\ out.results[k].status = "success"
                           /\ \E r \in 1..Len(calls[i].requests) :
                                 calls[i].requests[r] = Req("events.move", ids[k])
                     /\ calls[i].input.statuses[ids[k]] # "ok" =>
                           out.results[k].status = "failed"
               /\ out.successful_moves =
                     Cardinality({ k \in 1..Len(ids) :
                                     out.results[k].status = "success" })

\* the first event fails, the second is moved
C22_Witness ==
    /\ Len(calls) = 1
    /\ MovePassedAccess(1)
    /\ Len(calls[1].input.event_ids) = 2
    /\ calls[1].out.results[1].status = "failed"
    /\ calls[1].out.results[2].status = "success"
    /\ calls[1].out.successful_moves = 1
    /\ calls[1].out.failed_moves = 1
    /\ event_status[calls[1].input.event_ids[2]] = "get_404"

(***************************************************************************)
(* C23: no returned slot overlaps a timed busy interval whose start falls  *)
(* on the slot's own day: s.end <= b.start or s.start >= b.end for every   *)
(* returned slot s and every timed busy interval b attributed to that day, *)
(* given that the day's intervals are processed in ascending start order.  *)
(***************************************************************************)
\* the events of date k in the order the walk takes them
Processed(k) == day_events_sorted(day_events(Busy, k, Tz))

ProcessedAscending(k) ==
    \A i, j \in 1..Len(Processed(k)) :
        i < j => EventStart(Processed(k)[i]) <= EventStart(Processed(k)[j])

C23_NoOverlapOnOwnDay ==
    Returned =>
        \A i \in 1..Len(free_slots) :
            LET s == free_slots[i]
            IN ProcessedAscending(s.date) =>
                  \A b \in TimedOn(s.date) :
                      \/ s.end_time <= Naive(EventStart(Busy[b]), Tz)
                      \/ s.start_time >= Naive(EventEnd(Busy[b]), Tz)

\* a day with two busy intervals, one nested in the other, and a returned
\* slot on that day
C23_Witness ==
    /\ Returned /\ ValidConfig
    /\ \E k \in EligibleDates :
          /\ ProcessedAscending(k)
          /\ SlotsOn(ret.free_slots, k) # {}
          /\ \E a, b \in TimedOn(k) :
                /\ EventStart(Busy[a]) < EventStart(Busy[b])
                /\ EventEnd(Busy[b]) < EventEnd(Busy[a])

(***************************************************************************)
(* C24: a busy interval is attributed only to the local day on which its   *)
(* start falls: an interval that starts on day D and ends after midnight   *)
(* on day D+1 affects the scan of day D only; the slots of every other     *)
(* scanned day, D+1 included, are the ones found as if that interval did   *)
(* not exist.                                                              *)
(***************************************************************************)
Without(events, i) ==
    SubSeq(events, 1, i - 1) \o SubSeq(events, i + 1, Len(events))

\* Busy[b] is timed, starts on one local day and ends on a later one
CrossesMidnight(b) ==
    /\ Busy[b].hasDateTime
    /\ DateOf(EventEnd(Busy[b]), Tz) > DateOf(EventStart(Busy[b]), Tz)

RECURSIVE SlotsOfDate(_, _)
SlotsOfDate(slots, k) ==
    IF slots = <<>> THEN <<>>
    ELSE (IF Head(slots).date = k THEN <<Head(slots)>> ELSE <<>>)
         \o SlotsOfDate(Tail(slots), k)

C24_AttributedToStartDay ==
    Returned =>
        \A b \in 1..Len(Busy) :
            CrossesMidnight(b) =>
                \A k \in EligibleDates \ {DateOf(EventStart(Busy[b]), Tz)} :
                    SlotsOfDate(free_slots, k)
                        = ScanDay(Without(Busy, b), k, now, args, Tz)

\* an interval from 23:00 of day D to 17:00 of day D+1 and a returned slot
\* on day D+1 that lies inside it
C24_Witness ==
    /\ Returned /\ ValidConfig
    /\ \E b \in 1..Len(Busy) :
          /\ CrossesMidnight(b)
          /\ \E i \in 1..Len(ret.free_slots) :
                /\ ret.free_slots[i].date = DateOf(EventStart(Busy[b]), Tz) + 1
                /\ ret.free_slots[i].start_time >= Naive(EventStart(Busy[b]), Tz)
                /\ ret.free_slots[i].end_time <= Naive(EventEnd(Busy[b]), Tz)

(***************************************************************************)
(* C25: during the scan of one day the cursor current_time never           *)
(* decreases: after each busy interval it is max(current, b_end), whether  *)
(* or not a slot was emitted, so an interval that ends inside the span     *)
(* already consumed neither advances the cursor nor produces a slot.       *)
(***************************************************************************)
\* the walk of date k after its first n events: the cursor and the slots
WalkAfter(k, n) ==
    WalkEvents(SubSeq(Processed(k), 1, n), ClampedStart(k),
               args.duration_minutes, Tz)

\* the n-th event walked on date k ends inside the span already consumed
EndsInConsumedSpan(k, n) ==
    EventEnd(Processed(k)[n]) <= WalkAfter(k, n - 1).current_time

C25_CursorNeverDecreases ==
    Returned =>
        \A k \in EligibleDates :
            /\ WalkAfter(k, 0).current_time = ClampedStart(k)
            /\ \A n \in 1..Len(Processed(k)) :
                  LET before == WalkAfter(k, n - 1)
                      after == WalkAfter(k, n)
                  IN /\ after.current_time >= before.current_time
                     /\ after.current_time =
                           Max(before.current_time, EventEnd(Processed(k)[n]))
                     /\ EndsInConsumedSpan(k, n) =>
                           /\ after.current_time = before.current_time
                           /\ after.slots = before.slots
            /\ LET walk == WalkAfter(k, Len(Processed(k)))
               IN SubSeq(SlotsOfDate(free_slots, k), 1, Len(walk.slots))
                     = walk.slots

\* two intervals on one day, the second nested in the first and with no slot
\* in front of the first, and a returned slot after them
C25_Witness ==
    /\ Returned /\ ValidConfig
    /\ \E k \in EligibleDates :
          /\ Len(Processed(k)) = 2
          /\ EndsInConsumedSpan(k, 2)
          /\ EventStart(Processed(k)[2]) > EventStart(Processed(k)[1])
          /\ WalkAfter(k, 1).slots = <<>>
          /\ SlotsOn(ret.free_slots, k) # {}

(***************************************************************************)
(* C27: when calendar_ids is provided to find_free_time it overrides       *)
(* calendar_id, and calendars are handled independently: a calendar with   *)
(* no access (403/404) or an API error (another HttpError) is skipped, and *)
(* the events of every other listed calendar are still collected and used  *)
(* as busy intervals.                                                      *)
(***************************************************************************)
Listed == IF args.calendar_ids # <<>> THEN args.calendar_ids
          ELSE <<args.calendar_id>>

\* the events of the accessible calendars among ids, in the order listed
RECURSIVE EventsOfAccessible(_)
EventsOfAccessible(ids) ==
    IF ids = <<>> THEN <<>>
    ELSE (IF Head(ids) \in DOMAIN calendars
             /\ calendars[Head(ids)].status = "ok"
          THEN EventsList(calendars[Head(ids)].items, now,
                          now + args.search_days * MinutesPerDay)
          ELSE <<>>)
         \o EventsOfAccessible(Tail(ids))

\* no listed calendar fails with an exception that is no HttpError
NoCrashListed ==
    \A i \in 1..Len(Listed) :
        Listed[i] \in DOMAIN calendars => calendars[Listed[i]].status # "crash"

C27_CalendarsIndependent ==
    (pc = "done" /\ service = "svc" /\ NoCrashListed) =>
        /\ ~ret.error
        /\ ret.calendars_checked = Listed
        /\ free_slots = Scan(EventsOfAccessible(Listed), now, args, Tz, weekday0)
        /\ ret.free_slots = Cap(free_slots)

\* calendar_ids lists a failing calendar before an accessible one that holds
\* an event, calendar_id names the failing one, and the slots returned are
\* the ones around that event
C27_Witness ==
    /\ pc = "done" /\ service = "svc" /\ ~ret.error
    /\ Len(args.calendar_ids) = 2
    /\ args.calendar_id = args.calendar_ids[1]
    /\ calendars[args.calendar_ids[1]].status = "http_error"
    /\ calendars[args.calendar_ids[1]].items # <<>>
    /\ calendars[args.calendar_ids[2]].status = "ok"
    /\ Len(EventsOfAccessible(Listed)) = 1
    /\ Cardinality(SlotsOn(ret.free_slots, 0)) = 2

(***************************************************************************)
(* C26: Scheduler.find_free_time_blocks reports a day as a free block only *)
(* when that day's working-hours window really contains free time large    *)
(* enough to hold hours_needed given the day's timed busy items, and the   *)
(* reported estimated_free_hours is never negative.  Stated for a positive *)
(* hours_needed and a window whose start hour is before its end hour.      *)
(***************************************************************************)
\* the window of date k has hours free from minute p on, clear of the timed
\* items of that date
FreeFrom(items, k, working_hours, hours, p) ==
    /\ p >= working_hours[1] * MinutesPerHour
    /\ p + hours * MinutesPerHour <= working_hours[2] * MinutesPerHour
    /\ \A i \in 1..Len(items) :
          (items[i].date = k /\ ~items[i].all_day) =>
              \/ items[i].end <= p
              \/ items[i].start >= p + hours * MinutesPerHour

HoldsHours(items, k, working_hours, hours) ==
    \E p \in {working_hours[1] * MinutesPerHour}
             \cup { items[i].end : i \in 1..Len(items) } :
        FreeFrom(items, k, working_hours, hours, p)

C26_BlockHasFreeTime ==
    \A c \in 1..Len(calls) :
        (calls[c].tool = "find_free_time_blocks" /\ ~calls[c].out.error) =>
            \A b \in 1..Len(calls[c].out.recommendations) :
                LET block == calls[c].out.recommendations[b]
                    input == calls[c].input
                IN /\ block.estimated_free_hours >= 0
                   /\ (input.hours_needed > 0
                       /\ input.working_hours[1] < input.working_hours[2]) =>
                         HoldsHours(input.items, block.date,
                                    input.working_hours, input.hours_needed)

(***************************************************************************)
(* C30: Scheduler._parse_human_time gives every parsed time a default      *)
(* one-hour duration: for every start hour 0..23 the returned end is on    *)
(* the same date and exactly one hour after the returned start, with       *)
(* 12 AM mapped to hour 0 and 12 PM to hour 12.                            *)
(***************************************************************************)
MinuteOfDay(t) == t.hour * MinutesPerHour + t.minute

C30_OneHourDuration ==
    \A c \in 1..Len(calls) :
        calls[c].tool = "_parse_human_time" =>
            LET input == calls[c].input.time_input
                out == calls[c].out
            IN /\ out.start.hour \in 0..23
               /\ out.end.date = out.start.date
               /\ MinuteOfDay(out.end) - MinuteOfDay(out.start) = MinutesPerHour
               /\ (input.form = "ampm" /\ input.hour = 12) =>
                     out.start.hour = (IF input.suffix = "am" THEN 0 ELSE 12)

(***************************************************************************)
(* C28: the toolkit logs in lazily and caches the service.  Over any       *)
(* sequence of tool calls, GoogleAuth.login is invoked exactly when a tool *)
(* call starts with service = None, so it runs at most once between        *)
(* consecutive logouts while it succeeds; if login raises, service stays   *)
(* None, the tool returns an error JSON without calling the calendar API,  *)
(* and the next tool call attempts login again.                            *)
(***************************************************************************)
IsTool(c) == calls[c].tool # "logout"

\* the service the toolkit holds when call c has returned
ServiceAfter(c) ==
    IF c < Len(calls) THEN calls[c + 1].service_before ELSE service

NoLogoutBetween(c, d) == \A k \in c..d : IsTool(k)

C28_LazyLoginCachedService ==
    /\ \A c \in 1..Len(calls) :
          IsTool(c) =>
              /\ calls[c].login_invoked <=> calls[c].service_before = "None"
              /\ calls[c].login_raised =>
                    /\ calls[c].login_invoked
                    /\ ServiceAfter(c) = "None"
                    /\ calls[c].out.error
                    /\ calls[c].requests = <<>>
                    /\ (c < Len(calls) /\ IsTool(c + 1)) =>
                          calls[c + 1].login_invoked
    /\ \A c \in 1..Len(calls), d \in 1..Len(calls) :
          (/\ c < d
           /\ NoLogoutBetween(c, d)
           /\ calls[c].login_invoked /\ ~calls[c].login_raised) =>
              ~calls[d].login_invoked

\* a login that raises, then one that succeeds, then a call on the cached
\* service that reaches the API
C28_Witness ==
    /\ Len(calls) = 3
    /\ calls[1].tool = "delete_calendar" /\ calls[1].login_raised
    /\ calls[2].tool = "find_free_time"
    /\ calls[2].login_invoked /\ ~calls[2].login_raised
    /\ calls[3].tool = "find_free_time"
    /\ ~calls[3].login_invoked /\ calls[3].requests # <<>>

(***************************************************************************)
(* C29: logout removes the saved token and forces re-authentication: in    *)
(* every state, after GoogleCalendarTools.logout() returns, the token file *)
(* is gone, is_authenticated() is False, service is None, and the next     *)
(* tool call runs the login path again.                                    *)
(***************************************************************************)
C29_LogoutForcesLogin ==
    /\ (Len(calls) > 0 /\ calls[Len(calls)].tool = "logout") =>
          /\ ~token_file
          /\ ~is_authenticated(creds)
          /\ service = "None"
    /\ \A c \in 1..Len(calls) :
          (calls[c].tool = "logout" /\ c < Len(calls) /\ IsTool(c + 1)) =>
              calls[c + 1].login_invoked

====
